---- MODULE Spec2Model ----
(***************************************************************************)
(* One invocation of podman-cli: main -> cli.NewRemoteCLI -> RemoteCLI.Run *)
(* (cmd/podman-cli/main.go, internal/cli, internal/client,                 *)
(* internal/commands).  Strings the code inspects character by character   *)
(* (host alias, directive values, paths, addresses) are sequences of       *)
(* one-character strings; strings the code only passes along (HTTP method, *)
(* API path, message tags) are TLA+ strings.                               *)
(***************************************************************************)
EXTENDS Integers, Sequences, FiniteSets, TLC

VARIABLES
    args,          \* os.Args[1:], a sequence of argument tokens
    pc,            \* position of the single flow of control
    flags,         \* host, timeout, insecure and the positional rest after fs.Parse
    initErr,       \* the error NewRemoteCLI returns ("" while there is none)
    directives,    \* the four conf.Get results of NewUserConfig, before defaulting
    userConfig,    \* *client.UserConfig (NoValue while nil)
    rc,            \* *cli.RemoteCLI (NoValue while nil)
    session,       \* the ssh.Client of Run: "none", "open" or "closed"
    channel,       \* the forwarded net.Conn of Run: "none", "open" or "closed"
    wire,          \* the requests written to the forwarded channel, in order
    resp,          \* the parsed *http.Response (NoValue while nil)
    defers,        \* Run's stack of deferred calls, last registered first
    retval,        \* the value Run is returning (NoCode before its return statement)
    exitCode,      \* the code given to os.Exit (NoCode while the process runs)
    stdout,        \* what was written to os.Stdout, in order
    stderr,        \* what was written to os.Stderr (log.Printf included), in order
    trace,         \* every call to a collaborator, in order, with its outcome
    given,         \* when a function is examined on its own: its arguments and the
                   \* environment it runs in (NoValue in a whole invocation, where
                   \* the environment is met at each call)
    clock,         \* seconds since ssh.Dial was entered, when connect is examined
                   \* on its own (time is not followed in a whole invocation)
    registry,      \* package commands: the map held by the variable commands
    heap,          \* the maps and Commands that package commands has handed out
    returned,      \* the calls made to package commands, with what each returned
    files          \* ~/.ssh/config as the process holds it: how often it was
                   \* opened, and how many handles on it are open

\* the memory of package commands
Package == <<registry, heap, returned>>

vars == <<Package, files, given, clock, args, pc, flags, initErr, directives, userConfig, rc, session, channel,
          wire, resp, defers, retval, exitCode, stdout, stderr, trace>>

----------------------------------------------------------------------------
(* Bounds of the model *)

\* longest argument list explored
MaxArgs == 3

\* most calls a caller makes to package commands
MaxCalls == 3

\* longest dial timeout explored, in seconds
MaxTimeout == 3

\* how long a connect is followed, in seconds: past every timeout explored
MaxClock == MaxTimeout + 2

NoValue == [nil |-> TRUE]

\* ~/.ssh/config was never opened
NoFiles == [opens |-> 0, open |-> 0]
NoCode == -1

----------------------------------------------------------------------------
(* Strings as character sequences *)

S_list_containers ==
    <<"l","i","s","t","_","c","o","n","t","a","i","n","e","r","s">>
S_w == <<"w">>
S_60s == <<"6","0","s">>
S_bad == <<"b","a","d">>
S_22 == <<"2","2">>
S_dot_ssh == <<".","s","s","h">>
S_known_hosts == <<"k","n","o","w","n","_","h","o","s","t","s">>
S_id_ed25519 == <<"i","d","_","e","d","2","5","5","1","9">>

Digits == {"0","1","2","3","4","5","6","7","8","9"}

DigitVal(c) ==
    CASE c = "0" -> 0 [] c = "1" -> 1 [] c = "2" -> 2 [] c = "3" -> 3
      [] c = "4" -> 4 [] c = "5" -> 5 [] c = "6" -> 6 [] c = "7" -> 7
      [] c = "8" -> 8 [] c = "9" -> 9

\* strings.HasPrefix(s, p)
HasPrefix(s, p) == Len(s) >= Len(p) /\ SubSeq(s, 1, Len(p)) = p

\* s[n:]
SliceFrom(s, n) == SubSeq(s, n + 1, Len(s))

RECURSIVE DecimalValue(_)
DecimalValue(s) ==
    IF s = <<>> THEN 0
    ELSE 10 * DecimalValue(SubSeq(s, 1, Len(s) - 1)) + DigitVal(s[Len(s)])

\* strconv.Atoi: an optional sign, then one or more decimal digits
Atoi(s) ==
    LET signed == Len(s) > 0 /\ s[1] \in {"+", "-"}
        body == IF signed THEN Tail(s) ELSE s
    IN  IF body = <<>> \/ \E i \in 1..Len(body) : body[i] \notin Digits
        THEN [ok |-> FALSE, val |-> 0]
        ELSE [ok |-> TRUE,
              val |-> IF signed /\ s[1] = "-" THEN 0 - DecimalValue(body)
                      ELSE DecimalValue(body)]

----------------------------------------------------------------------------
(* path/filepath *)

RECURSIVE SplitSlash(_)
\* the components of a path between its "/" separators
SplitSlash(p) ==
    IF \A i \in 1..Len(p) : p[i] # "/" THEN <<p>>
    ELSE LET i == CHOOSE k \in 1..Len(p) :
                      p[k] = "/" /\ \A j \in 1..(k - 1) : p[j] # "/"
         IN  <<SubSeq(p, 1, i - 1)>> \o SplitSlash(SliceFrom(p, i))

RECURSIVE CleanComponents(_, _, _)
\* filepath.Clean's pass over the components: drops "" and ".", resolves ".."
CleanComponents(cs, out, rooted) ==
    IF cs = <<>> THEN out
    ELSE LET c == Head(cs) IN
         IF c = <<>> \/ c = <<".">> THEN CleanComponents(Tail(cs), out, rooted)
         ELSE IF c = <<".", ".">> THEN
              IF out # <<>> /\ out[Len(out)] # <<".", ".">>
              THEN CleanComponents(Tail(cs), SubSeq(out, 1, Len(out) - 1), rooted)
              ELSE IF rooted THEN CleanComponents(Tail(cs), out, rooted)
              ELSE CleanComponents(Tail(cs), Append(out, c), rooted)
         ELSE CleanComponents(Tail(cs), Append(out, c), rooted)

RECURSIVE JoinSlash(_)
JoinSlash(cs) ==
    IF cs = <<>> THEN <<>>
    ELSE IF Len(cs) = 1 THEN cs[1]
    ELSE cs[1] \o <<"/">> \o JoinSlash(Tail(cs))

\* filepath.Clean
Clean(p) ==
    IF p = <<>> THEN <<".">>
    ELSE LET rooted == p[1] = "/"
             body == JoinSlash(CleanComponents(SplitSlash(p), <<>>, rooted))
         IN  IF rooted THEN <<"/">> \o body
             ELSE IF body = <<>> THEN <<".">> ELSE body

\* filepath.Join: the non-empty elements joined by "/", then cleaned
PathJoin(elems) ==
    LET nonEmpty == SelectSeq(elems, LAMBDA e : e # <<>>)
    IN  IF nonEmpty = <<>> THEN <<>> ELSE Clean(JoinSlash(nonEmpty))

\* client.sshUserFilePath
sshUserFilePath(home, fileName) == PathJoin(<<home, S_dot_ssh, fileName>>)

----------------------------------------------------------------------------
(* Command-line arguments.  A token is one argument string, split the way   *)
(* flag.FlagSet.parseOne splits it: a "word" does not start with "-" (or is *)
(* "-" alone), "end" is "--", a "flag" is -name or -name=value.             *)

Word(s) == [kind |-> "word", name |-> "", hasValue |-> FALSE, value |-> s]
EndOfFlags == [kind |-> "end", name |-> "", hasValue |-> FALSE, value |-> <<>>]
Flag(n) == [kind |-> "flag", name |-> n, hasValue |-> FALSE, value |-> <<>>]
FlagV(n, v) == [kind |-> "flag", name |-> n, hasValue |-> TRUE, value |-> v]

\* the spelling of the flag names that occur in explored arguments
NameChars(n) ==
    CASE n = "host" -> <<"h","o","s","t">>
      [] n = "timeout" -> <<"t","i","m","e","o","u","t">>
      [] n = "no-host-validation" ->
           <<"n","o","-","h","o","s","t","-","v","a","l","i","d","a","t","i","o","n">>

\* the argument string a token stands for
Raw(t) ==
    CASE t.kind = "word" -> t.value
      [] t.kind = "end" -> <<"-", "-">>
      [] t.kind = "flag" ->
           <<"-">> \o NameChars(t.name)
               \o (IF t.hasValue THEN <<"=">> \o t.value ELSE <<>>)

\* the argument tokens explored
ArgTokens ==
    { Flag("host"), FlagV("host", S_w), Word(S_w), Word(S_list_containers),
      FlagV("timeout", S_60s), FlagV("timeout", S_bad),
      Flag("no-host-validation") }

RECURSIVE SeqsUpTo(_, _)
\* the sequences over S of length at most n
SeqsUpTo(S, n) ==
    IF n = 0 THEN {<<>>}
    ELSE LET shorter == SeqsUpTo(S, n - 1)
         IN  shorter \cup {Append(q, x) : q \in {r \in shorter : Len(r) = n - 1}, x \in S}

\* the three flags NewRemoteCLI defines
FormalFlags == {"host", "timeout", "no-host-validation"}

\* default of -timeout, in seconds
DefaultTimeout == 30

\* time.ParseDuration on the explored values, in seconds
ParseDuration(v) ==
    IF v = S_60s THEN [ok |-> TRUE, val |-> 60] ELSE [ok |-> FALSE, val |-> 0]

\* strconv.ParseBool
ParseBool(v) ==
    IF v \in {<<"1">>, <<"t">>, <<"T">>, <<"t","r","u","e">>,
              <<"T","R","U","E">>, <<"T","r","u","e">>}
    THEN [ok |-> TRUE, val |-> TRUE]
    ELSE IF v \in {<<"0">>, <<"f">>, <<"F">>, <<"f","a","l","s","e">>,
                   <<"F","A","L","S","E">>, <<"F","a","l","s","e">>}
    THEN [ok |-> TRUE, val |-> FALSE]
    ELSE [ok |-> FALSE, val |-> FALSE]

\* the flag variables before fs.Parse
FlagDefaults ==
    [err |-> "", host |-> <<>>, timeout |-> DefaultTimeout, insecure |-> FALSE,
     rest |-> <<>>]

RECURSIVE FlagParse_Interspersed(_, _)
\* a parser that goes on looking for flags after a positional argument
FlagParse_Interspersed(a, st) ==
    IF a = <<>> THEN [st EXCEPT !.rest = <<>>]
    ELSE LET s == Head(a) IN
         CASE s.kind = "word" ->
                [FlagParse_Interspersed(Tail(a), st) EXCEPT !.rest = <<s>> \o @]
           [] s.kind = "end" -> [st EXCEPT !.rest = Tail(a)]
           [] s.kind = "flag" ->
                IF s.name \notin FormalFlags
                THEN [st EXCEPT !.err = IF s.name \in {"help", "h"}
                                        THEN "help requested"
                                        ELSE "flag provided but not defined"]
                ELSE IF s.name = "no-host-validation"
                THEN IF s.hasValue
                     THEN IF ParseBool(s.value).ok
                          THEN FlagParse_Interspersed(Tail(a),
                                   [st EXCEPT !.insecure = ParseBool(s.value).val])
                          ELSE [st EXCEPT !.err = "invalid boolean value"]
                     ELSE FlagParse_Interspersed(Tail(a), [st EXCEPT !.insecure = TRUE])
                ELSE LET hasValue == s.hasValue \/ Len(a) > 1
                         value == IF s.hasValue THEN s.value ELSE Raw(a[2])
                         after == IF s.hasValue THEN Tail(a) ELSE Tail(Tail(a))
                     IN  IF ~hasValue
                         THEN [st EXCEPT !.err = "flag needs an argument"]
                         ELSE IF s.name = "host"
                         THEN FlagParse_Interspersed(after, [st EXCEPT !.host = value])
                         ELSE IF ParseDuration(value).ok
                         THEN FlagParse_Interspersed(after,
                                  [st EXCEPT !.timeout = ParseDuration(value).val])
                         ELSE [st EXCEPT !.err = "invalid value"]

RECURSIVE FlagParse(_, _)
\* fs.Parse(args): flags are consumed up to the first word or "--"
FlagParse(a, st) ==
    IF a = <<>> THEN [st EXCEPT !.rest = <<>>]
    ELSE LET s == Head(a) IN
         CASE s.kind = "word" -> [st EXCEPT !.rest = a]
           [] s.kind = "end" -> [st EXCEPT !.rest = Tail(a)]
           [] s.kind = "flag" ->
                IF s.name \notin FormalFlags
                THEN [st EXCEPT !.err = IF s.name \in {"help", "h"}
                                        THEN "help requested"
                                        ELSE "flag provided but not defined"]
                ELSE IF s.name = "no-host-validation"
                THEN IF s.hasValue
                     THEN IF ParseBool(s.value).ok
                          THEN FlagParse(Tail(a),
                                   [st EXCEPT !.insecure = ParseBool(s.value).val])
                          ELSE [st EXCEPT !.err = "invalid boolean value"]
                     ELSE FlagParse(Tail(a), [st EXCEPT !.insecure = TRUE])
                ELSE LET hasValue == s.hasValue \/ Len(a) > 1
                         value == IF s.hasValue THEN s.value ELSE Raw(a[2])
                         after == IF s.hasValue THEN Tail(a) ELSE Tail(Tail(a))
                     IN  IF ~hasValue
                         THEN [st EXCEPT !.err = "flag needs an argument"]
                         ELSE IF s.name = "host"
                         THEN FlagParse(after, [st EXCEPT !.host = value])
                         ELSE IF ParseDuration(value).ok
                         THEN FlagParse(after,
                                  [st EXCEPT !.timeout = ParseDuration(value).val])
                         ELSE [st EXCEPT !.err = "invalid value"]

----------------------------------------------------------------------------
(* internal/commands *)

\* the registry: name -> Command
commands ==
    [n \in {S_list_containers} |-> [Path |-> "/v3.0.0/containers/json", Method |-> "GET"]]

\* a lookup that also accepts the beginning of a registered name
IsCommand_ByPrefix(cmd) ==
    LET found == {n \in DOMAIN registry : cmd # <<>> /\ HasPrefix(n, cmd)}
    IN  IF found = {} THEN NoValue ELSE registry[CHOOSE n \in found : TRUE]

\* commands.IsCommand, lines 32-35: the entry of cmd in the map, or nil
IsCommand(cmd) ==
    IF cmd \in DOMAIN registry THEN registry[cmd] ELSE NoValue

\* a reference: nil, an object that package commands allocated, or the
\* package's own map
NilRef == [space |-> "nil", at |-> 0]
HeapRef(n) == [space |-> "heap", at |-> n]
GlobalRef == [space |-> "global", at |-> 0]

\* a Commands that hands out the registry map itself
CommandsCall_ReturnsTheMap(hp) == [heap |-> hp, ref |-> GlobalRef]

\* commands.Commands, lines 21-27: a new map with every entry of the registry
CommandsCall(hp) == [heap |-> Append(hp, registry), ref |-> HeapRef(Len(hp) + 1)]

\* commands.IsCommand, line 36: the address of the local copy of the entry, a
\* new variable on every call
IsCommandCall(hp, cmd) ==
    IF IsCommand(cmd) = NoValue THEN [heap |-> hp, ref |-> NilRef]
    ELSE [heap |-> Append(hp, IsCommand(cmd)), ref |-> HeapRef(Len(hp) + 1)]

----------------------------------------------------------------------------
(* internal/client: host resolution *)

S_star == <<"*">>
S_other == <<"o">>
S_hostname == <<"h">>
S_admin == <<"a">>
S_tilde_key == <<"~","/","k">>
S_abs_key == <<"/","k">>
S_notanumber == <<"n","a","n">>
S_ssh == <<"s","s","h">>
S_home == <<"/","r">>
S_user == <<"u">>
S_tilde_slash == <<"~","/">>

\* the process environments explored
Envs == [HOME : {S_home, <<>>}, USER : {S_user, <<>>}]

\* a Host block of ~/.ssh/config: its pattern and its directives (<<>>: not given)
HostBlocks ==
    [pattern : {S_w, S_star, S_other},
     HostName : {<<>>, S_hostname},
     User : {<<>>, S_admin},
     IdentityFile : {<<>>, S_tilde_key, S_abs_key},
     Port : {<<>>, S_22, S_notanumber, S_ssh}]

\* the closing "Host *" blocks explored after a first block
FallbackBlocks ==
    {b \in HostBlocks : /\ b.pattern = S_star
                        /\ b.HostName = <<>>
                        /\ b.User = S_admin
                        /\ b.IdentityFile = S_tilde_key
                        /\ b.Port \in {<<>>, S_notanumber}}

\* a "Host *" block that gives none of the four directives
EmptyStarBlock ==
    [pattern |-> S_star, HostName |-> <<>>, User |-> <<>>, IdentityFile |-> <<>>,
     Port |-> <<>>]

\* the states of ~/.ssh/config explored: missing, undecodable, a failing lookup
\* (inside a block that matches), no block, one block, or a block followed by
\* a "Host *" block
ConfigFiles ==
    {[exists |-> FALSE, decodes |-> FALSE, getErr |-> "", blocks |-> <<>>],
     [exists |-> TRUE, decodes |-> FALSE, getErr |-> "", blocks |-> <<>>]}
    \cup {[exists |-> TRUE, decodes |-> TRUE, getErr |-> k,
           blocks |-> <<EmptyStarBlock>>] :
             k \in {"HostName", "User", "IdentityFile", "Port"}}
    \cup {[exists |-> TRUE, decodes |-> TRUE, getErr |-> "", blocks |-> b] :
             b \in {<<>>} \cup {<<x>> : x \in HostBlocks}
                   \cup {<<x, y>> : x \in {h \in HostBlocks : h.pattern = S_w},
                                     y \in FallbackBlocks}}

\* ssh_config Host.Matches: the pattern "*" or the alias itself
Matches(pattern, alias) == pattern = S_star \/ pattern = alias

\* a lookup that takes the first block giving the key, whatever its pattern
ConfGet_IgnoresPattern(blocks, alias, key) ==
    LET giving == {i \in DOMAIN blocks : blocks[i][key] # <<>>}
    IN  IF giving = {} THEN <<>>
        ELSE blocks[CHOOSE i \in giving : \A j \in giving : i <= j][key]

RECURSIVE ConfGet(_, _, _)
\* conf.Get(alias, key): the value of the first matching block that gives key, else ""
ConfGet(blocks, alias, key) ==
    IF blocks = <<>> THEN <<>>
    ELSE IF Matches(Head(blocks).pattern, alias) /\ Head(blocks)[key] # <<>>
    THEN Head(blocks)[key]
    ELSE ConfGet(Tail(blocks), alias, key)

\* conf.Get returns an error: the library does so only for a node it does not
\* know inside a block that matches the alias
LookupFails(file, alias) ==
    /\ file.getErr # ""
    /\ \E i \in DOMAIN file.blocks : Matches(file.blocks[i].pattern, alias)

\* the default of HostName (lines 113-116)
ResolveHostName(v, host) == IF v = <<>> THEN host ELSE v

\* the default of User (lines 124-127)
ResolveUser(v, env) == IF v = <<>> THEN env.USER ELSE v

\* an expansion that puts HOME in the place of the "~" and joins nothing
ResolveIdentityFile_Concatenates(v, env) ==
    IF v = <<>> THEN sshUserFilePath(env.HOME, S_id_ed25519)
    ELSE IF HasPrefix(v, S_tilde_slash) THEN env.HOME \o SliceFrom(v, 1)
    ELSE v

\* the default and the tilde expansion of IdentityFile (lines 135-140)
ResolveIdentityFile(v, env) ==
    IF v = <<>> THEN sshUserFilePath(env.HOME, S_id_ed25519)
    ELSE IF HasPrefix(v, S_tilde_slash) THEN PathJoin(<<env.HOME, SliceFrom(v, 2)>>)
    ELSE v

\* a Port that is left empty when the directive is absent
ResolvePort_NoDefault(v) == v

\* the default of Port (lines 147-150); the value is kept as a string, unparsed
ResolvePort(v) == IF v = <<>> THEN S_22 ELSE v

\* client.NewUserConfig(host) under environment env, with ~/.ssh/config being file
NewUserConfig(host, env, file) ==
    LET get(k) == ConfGet(file.blocks, host, k)
        lookups == [HostName |-> get("HostName"), User |-> get("User"),
                    IdentityFile |-> get("IdentityFile"), Port |-> get("Port")]
        failed(e) == [err |-> e, cfg |-> NoValue, lookups |-> NoValue]
    IN  IF ~file.exists THEN failed("open config")
        ELSE IF ~file.decodes THEN failed("decode config")
        ELSE IF LookupFails(file, host) THEN failed("lookup failed")
        ELSE [err |-> "",
              cfg |-> [user |-> ResolveUser(lookups.User, env),
                       port |-> ResolvePort(lookups.Port),
                       hostName |-> ResolveHostName(lookups.HostName, host),
                       knownHosts |-> sshUserFilePath(env.HOME, S_known_hosts),
                       identityFile |-> ResolveIdentityFile(lookups.IdentityFile, env)],
              lookups |-> lookups]

\* a NewUserConfig that closes the file on its last line instead of deferring it
NewUserConfigFileOps_ClosedAtTheEnd(host, env, file) ==
    LET err == NewUserConfig(host, env, file).err
    IN  IF err = "open config" THEN <<"open failed">>
        ELSE IF err = "" THEN <<"open", "close">>
        ELSE <<"open">>

\* what NewUserConfig does to ~/.ssh/config, lines 97-101: os.Open, and once
\* that succeeded the deferred file.Close on whichever return follows
NewUserConfigFileOps(host, env, file) ==
    LET err == NewUserConfig(host, env, file).err
    IN  IF err = "open config" THEN <<"open failed">>
        ELSE <<"open", "close">>

\* the process's hold on the file after these operations
ApplyFileOps(f, ops) ==
    LET count(op) == Cardinality({i \in DOMAIN ops : ops[i] = op})
    IN  [opens |-> f.opens + count("open") + count("open failed"),
         open |-> f.open + count("open") - count("close")]

\* an Addr that leaves the port out
Addr_HostOnly(uc) == uc.hostName

\* UserConfig.Addr: "%s:%s" of hostName and port
Addr(uc) == uc.hostName \o <<":">> \o uc.port

\* config.NewSSHConfig's port handling (internal/config): the port must convert
NewSSHConfigPort(v) == Atoi(ResolvePort(v))

----------------------------------------------------------------------------
(* internal/client: transport configuration *)

\* what the files NewSSHClientConfig reads can be: the identity file missing, or
\* holding no private key, or fine with known_hosts unloadable or loadable
KeyFiles ==
    {[readable |-> FALSE, parses |-> FALSE, knownHostsLoads |-> TRUE],
     [readable |-> TRUE, parses |-> FALSE, knownHostsLoads |-> TRUE],
     [readable |-> TRUE, parses |-> TRUE, knownHostsLoads |-> FALSE],
     [readable |-> TRUE, parses |-> TRUE, knownHostsLoads |-> TRUE]}

Event(op, ok, arg, why) == [op |-> op, ok |-> ok, arg |-> arg, why |-> why]

\* a NewSSHClientConfig that goes on without a key when the identity file cannot
\* be read
NewSSHClientConfig_IgnoresReadError(timeout, insecure, uc, fs) ==
    [err |-> "",
     cfg |-> [User |-> uc.user,
              HostKeyCallback |-> IF insecure THEN "InsecureIgnoreHostKey"
                                  ELSE "knownhosts",
              Timeout |-> timeout],
     events |-> <<Event("readKey", fs.readable, <<>>, "")>>]

\* a NewSSHClientConfig that falls back to accepting any host key when the
\* known-hosts file cannot be loaded
NewSSHClientConfig_FallsBack(timeout, insecure, uc, fs) ==
    LET readKey == Event("readKey", fs.readable, <<>>, "")
        parseKey == Event("parseKey", fs.parses, <<>>, "")
        knownHosts == Event("knownHosts", fs.knownHostsLoads, <<>>, "")
    IN  IF ~fs.readable
        THEN [err |-> "read identity file", cfg |-> NoValue, events |-> <<readKey>>]
        ELSE IF ~fs.parses
        THEN [err |-> "parse private key", cfg |-> NoValue,
              events |-> <<readKey, parseKey>>]
        ELSE [err |-> "",
              cfg |-> [User |-> uc.user,
                       HostKeyCallback |-> IF insecure \/ ~fs.knownHostsLoads
                                           THEN "InsecureIgnoreHostKey"
                                           ELSE "knownhosts",
                       Timeout |-> timeout],
              events |-> IF insecure THEN <<readKey, parseKey>>
                         ELSE <<readKey, parseKey, knownHosts>>]

\* a NewSSHClientConfig that loads the known-hosts file before it looks at the
\* flag
NewSSHClientConfig_AlwaysLoadsKnownHosts(timeout, insecure, uc, fs) ==
    LET readKey == Event("readKey", fs.readable, <<>>, "")
        parseKey == Event("parseKey", fs.parses, <<>>, "")
        knownHosts == Event("knownHosts", fs.knownHostsLoads, <<>>, "")
    IN  IF ~fs.readable
        THEN [err |-> "read identity file", cfg |-> NoValue, events |-> <<readKey>>]
        ELSE IF ~fs.parses
        THEN [err |-> "parse private key", cfg |-> NoValue,
              events |-> <<readKey, parseKey>>]
        ELSE IF ~fs.knownHostsLoads
        THEN [err |-> "load known hosts", cfg |-> NoValue,
              events |-> <<readKey, parseKey, knownHosts>>]
        ELSE [err |-> "",
              cfg |-> [User |-> uc.user,
                       HostKeyCallback |-> IF insecure THEN "InsecureIgnoreHostKey"
                                           ELSE "knownhosts",
                       Timeout |-> timeout],
              events |-> <<readKey, parseKey, knownHosts>>]

\* a NewSSHClientConfig that sets the default timeout whatever it is given
NewSSHClientConfig_DefaultTimeout(timeout, insecure, uc, fs) ==
    LET readKey == Event("readKey", fs.readable, <<>>, "")
        parseKey == Event("parseKey", fs.parses, <<>>, "")
        knownHosts == Event("knownHosts", fs.knownHostsLoads, <<>>, "")
    IN  IF ~fs.readable
        THEN [err |-> "read identity file", cfg |-> NoValue, events |-> <<readKey>>]
        ELSE IF ~fs.parses
        THEN [err |-> "parse private key", cfg |-> NoValue,
              events |-> <<readKey, parseKey>>]
        ELSE IF insecure
        THEN [err |-> "",
              cfg |-> [User |-> uc.user, HostKeyCallback |-> "InsecureIgnoreHostKey",
                       Timeout |-> DefaultTimeout],
              events |-> <<readKey, parseKey>>]
        ELSE IF ~fs.knownHostsLoads
        THEN [err |-> "load known hosts", cfg |-> NoValue,
              events |-> <<readKey, parseKey, knownHosts>>]
        ELSE [err |-> "",
              cfg |-> [User |-> uc.user, HostKeyCallback |-> "knownhosts",
                       Timeout |-> DefaultTimeout],
              events |-> <<readKey, parseKey, knownHosts>>]

\* client.NewSSHClientConfig(timeout, insecure, userConfig) with files fs
NewSSHClientConfig(timeout, insecure, uc, fs) ==
    LET readKey == Event("readKey", fs.readable, <<>>, "")
        parseKey == Event("parseKey", fs.parses, <<>>, "")
        knownHosts == Event("knownHosts", fs.knownHostsLoads, <<>>, "")
    IN  IF ~fs.readable
        THEN [err |-> "read identity file", cfg |-> NoValue, events |-> <<readKey>>]
        ELSE IF ~fs.parses
        THEN [err |-> "parse private key", cfg |-> NoValue,
              events |-> <<readKey, parseKey>>]
        ELSE IF insecure
        THEN [err |-> "",
              cfg |-> [User |-> uc.user, HostKeyCallback |-> "InsecureIgnoreHostKey",
                       Timeout |-> timeout],
              events |-> <<readKey, parseKey>>]
        ELSE IF ~fs.knownHostsLoads
        THEN [err |-> "load known hosts", cfg |-> NoValue,
              events |-> <<readKey, parseKey, knownHosts>>]
        ELSE [err |-> "",
              cfg |-> [User |-> uc.user, HostKeyCallback |-> "knownhosts",
                       Timeout |-> timeout],
              events |-> <<readKey, parseKey, knownHosts>>]

----------------------------------------------------------------------------
(* internal/cli: NewRemoteCLI *)

\* a NewRemoteCLI that does not look the command up
ValidateArgs_NoLookup(a) ==
    LET p == FlagParse(a, FlagDefaults) IN
    IF p.err # "" THEN p
    ELSE IF Len(p.rest) < 1
    THEN [p EXCEPT !.err = "at least one command must be provided"]
    ELSE IF p.host = <<>> THEN [p EXCEPT !.err = "-host is required"]
    ELSE p

\* a NewRemoteCLI that goes on without a host
ValidateArgs_HostOptional(a) ==
    LET p == FlagParse(a, FlagDefaults) IN
    IF p.err # "" THEN p
    ELSE IF Len(p.rest) < 1
    THEN [p EXCEPT !.err = "at least one command must be provided"]
    ELSE IF IsCommand(Raw(p.rest[1])) = NoValue
    THEN [p EXCEPT !.err = "invalid command"]
    ELSE p

\* a NewRemoteCLI that asks for the host before it asks for a command
ValidateArgs_HostFirst(a) ==
    LET p == FlagParse(a, FlagDefaults) IN
    IF p.err # "" THEN p
    ELSE IF p.host = <<>> THEN [p EXCEPT !.err = "-host is required"]
    ELSE IF Len(p.rest) < 1
    THEN [p EXCEPT !.err = "at least one command must be provided"]
    ELSE IF IsCommand(Raw(p.rest[1])) = NoValue
    THEN [p EXCEPT !.err = "invalid command"]
    ELSE p

\* lines 50-74: flag parsing, then the checks in the order the code makes them
ValidateArgs(a) ==
    LET p == FlagParse(a, FlagDefaults) IN
    IF p.err # "" THEN p
    ELSE IF Len(p.rest) < 1
    THEN [p EXCEPT !.err = "at least one command must be provided"]
    ELSE IF p.host = <<>> THEN [p EXCEPT !.err = "-host is required"]
    ELSE IF IsCommand(Raw(p.rest[1])) = NoValue
    THEN [p EXCEPT !.err = "invalid command"]
    ELSE p

\* the errors whose text has the word "host" in it: line 67 is "-host is
\* required (use -host to specify the remote host)"; the flag package names the
\* flag, which is -host in "flag needs an argument: -host" (the one explored
\* flag that can lack its value) and -no-host-validation in "invalid boolean
\* value"
MentionsHost(err) ==
    err \in {"-host is required", "flag needs an argument", "invalid boolean value"}

\* the errors whose text has the word "command" in it: lines 62 and 73
MentionsCommand(err) ==
    err \in {"at least one command must be provided", "invalid command"}

\* the errors fs.Parse returns
ParseErrors ==
    {"help requested", "flag provided but not defined", "invalid boolean value",
     "flag needs an argument", "invalid value"}

\* what lines 56-68 write to the error stream: the flag package reports a parse
\* error itself before log.Printf does; a missing host prints the defaults
ValidateOutput(p) ==
    IF p.err \in {"help requested", "flag provided but not defined",
                  "invalid boolean value", "flag needs an argument", "invalid value"}
    THEN <<"flag usage", "Failed to parse arguments">>
    ELSE IF p.err = "-host is required" THEN <<"flag defaults">>
    ELSE <<>>

\* the locals of NewRemoteCLI are gone once it has returned
LeaveNewRemoteCLI ==
    /\ flags' = NoValue
    /\ directives' = NoValue
    /\ userConfig' = NoValue

RunVars == <<session, channel, wire, resp, defers, retval>>

\* NewRemoteCLI, lines 46-74
ParseArgs ==
    /\ pc = "NewRemoteCLI"
    /\ LET p == ValidateArgs(args) IN
       /\ stderr' = stderr \o ValidateOutput(p)
       /\ trace' = Append(trace, Event("validateArgs", p.err = "", <<>>, p.err))
       /\ initErr' = p.err
       /\ IF p.err = ""
          THEN /\ flags' = p
               /\ pc' = "NewUserConfig"
               /\ UNCHANGED <<directives, userConfig>>
          ELSE /\ LeaveNewRemoteCLI
               /\ pc' = "initFailed"
    /\ UNCHANGED <<Package, files, given, clock, args, rc, exitCode, stdout>>
    /\ UNCHANGED RunVars

\* a NewRemoteCLI that goes on with the defaults when the resolver fails
ResolveHost_IgnoresError ==
    /\ pc = "NewUserConfig"
    /\ \E env \in Envs, file \in ConfigFiles :
          LET r == NewUserConfig(flags.host, env, file)
              none == NewUserConfig(flags.host, env,
                          [exists |-> TRUE, decodes |-> TRUE, getErr |-> "",
                           blocks |-> <<>>])
          IN  /\ trace' = Append(trace, Event("resolve", r.err = "", flags.host, r.err))
              /\ initErr' = ""
              /\ userConfig' = (IF r.err = "" THEN r.cfg ELSE none.cfg)
              /\ directives' = (IF r.err = "" THEN r.lookups ELSE none.lookups)
              /\ pc' = "NewSSHClientConfig"
              /\ files' = ApplyFileOps(files, NewUserConfigFileOps(flags.host, env, file))
              /\ UNCHANGED flags
    /\ UNCHANGED <<Package, given, clock, args, rc, exitCode, stdout, stderr>>
    /\ UNCHANGED RunVars

\* NewRemoteCLI, lines 76-79: the Host Resolver
ResolveHost ==
    /\ pc = "NewUserConfig"
    /\ \E env \in Envs, file \in ConfigFiles :
          LET r == NewUserConfig(flags.host, env, file) IN
          /\ trace' = Append(trace, Event("resolve", r.err = "", flags.host, r.err))
          /\ files' = ApplyFileOps(files, NewUserConfigFileOps(flags.host, env, file))
          /\ initErr' = r.err
          /\ IF r.err = ""
             THEN /\ userConfig' = r.cfg
                  /\ directives' = r.lookups
                  /\ pc' = "NewSSHClientConfig"
                  /\ UNCHANGED flags
             ELSE /\ LeaveNewRemoteCLI
                  /\ pc' = "initFailed"
    /\ UNCHANGED <<Package, given, clock, args, rc, exitCode, stdout, stderr>>
    /\ UNCHANGED RunVars

\* NewRemoteCLI, lines 81-92: the Authenticator, then the RemoteCLI is built
BuildTransportConfig ==
    /\ pc = "NewSSHClientConfig"
    /\ \E fs \in KeyFiles :
          LET r == NewSSHClientConfig(flags.timeout, flags.insecure, userConfig, fs) IN
          /\ trace' = trace \o r.events
          /\ initErr' = r.err
          /\ IF r.err = ""
             THEN /\ rc' = [addr |-> Addr(userConfig),
                            command |-> IsCommand(Raw(flags.rest[1])),
                            sshClientConfig |-> r.cfg]
                  /\ pc' = "Run"
             ELSE /\ pc' = "initFailed"
                  /\ UNCHANGED rc
    /\ LeaveNewRemoteCLI
    /\ UNCHANGED <<Package, files, given, clock, args, exitCode, stdout, stderr>>
    /\ UNCHANGED RunVars

\* main, lines 12-15: NewRemoteCLI returned an error
InitFailed ==
    /\ pc = "initFailed"
    /\ stderr' = Append(stderr, "failed to initialize CLI")
    /\ exitCode' = 1
    /\ pc' = "exited"
    /\ UNCHANGED <<Package, files, given, clock, args, flags, initErr, directives, userConfig, rc, stdout, trace>>
    /\ UNCHANGED RunVars

----------------------------------------------------------------------------
(* internal/cli: RemoteCLI.Run *)

\* http.StatusOK
StatusOK == 200

\* the status codes a response is explored with
Statuses == {199, 200, 299, 300, 404, 500}

\* the response bodies explored
Bodies == {"[]"}

\* an exit code with the upper limit of the 2xx range off by one
ExitCodeFor_UpperOffByOne(status) == IF status < StatusOK \/ status > 300 THEN 1 ELSE 0

\* lines 160-164: the exit code of a response that was read to its end
ExitCodeFor(status) == IF status < StatusOK \/ status >= 300 THEN 1 ELSE 0

\* a Run that closes the channel only on its last line instead of deferring it
PushDefer_ChannelNotDeferred(stack, call) ==
    IF call = "conn.Close" THEN stack ELSE <<call>> \o stack

\* deferred calls run in the order of their registration
PushDefer_Fifo(stack, call) == Append(stack, call)

\* a defer statement: the call goes on top of the function's stack of deferred calls
PushDefer(stack, call) == <<call>> \o stack

\* net.SplitHostPort: the part of a host:port address after its last colon
PortOfAddr(addr) ==
    LET colons == {i \in DOMAIN addr : addr[i] = ":"}
        last == CHOOSE i \in colons : \A j \in colons : j <= i
    IN  IF colons = {} THEN <<>> ELSE SliceFrom(addr, last)

\* the service names the dialing host knows
Services == {S_ssh}

\* net.LookupPort: a number in 0..65535, or a known service name
LookupPort(port) ==
    IF Atoi(port).ok THEN 0 <= Atoi(port).val /\ Atoi(port).val <= 65535
    ELSE port \in Services

\* the ways ssh.Dial("tcp", addr, config) can end: an address whose port does not
\* resolve fails in the dialer before a connection is made, and a host key is only
\* ever rejected by the known-hosts callback
ConnectOutcomes(addr, config) ==
    IF ~LookupPort(PortOfAddr(addr)) THEN {"dial failed"}
    ELSE {"ok", "dial failed", "handshake failed", "timeout"}
         \cup (IF config.HostKeyCallback = "knownhosts" THEN {"host key mismatch"}
               ELSE {})

\* a request that addresses the resolved target
BuildRequest_ToTarget(command) ==
    [Method |-> command.Method, Path |-> command.Path, Host |-> "target",
     Body |-> ""]

\* lines 127-133: the request is built from the command alone
BuildRequest(command) ==
    [Method |-> command.Method, Path |-> command.Path, Host |-> "localhost",
     Body |-> ""]

\* every return of Run reports success
ReturnFromRun_Zero(code) ==
    /\ retval' = 0
    /\ pc' = "unwinding"

\* a failed connect is tried a second time
ReturnFromRun_RetryConnect(code) ==
    IF pc = "Run" /\ \A i \in DOMAIN trace : trace[i].op # "connect"
    THEN /\ retval' = retval
         /\ pc' = "Run"
    ELSE /\ retval' = code
         /\ pc' = "unwinding"

\* a failed connect is reported and Run goes on to open the socket all the same
ReturnFromRun_GoesOnAfterConnect(code) ==
    IF pc = "Run"
    THEN /\ retval' = retval
         /\ pc' = "Dial"
    ELSE /\ retval' = code
         /\ pc' = "unwinding"

\* a return statement of Run: the deferred calls run next
ReturnFromRun(code) ==
    /\ retval' = code
    /\ pc' = "unwinding"

\* Run, lines 108-113: client.NewSSHClient, the TCP dial and the handshake
Connect ==
    /\ pc = "Run"
    /\ \E outcome \in ConnectOutcomes(rc.addr, rc.sshClientConfig) :
          /\ trace' = Append(trace, Event("connect", outcome = "ok", rc.addr, outcome))
          /\ IF outcome = "ok"
             THEN /\ session' = "open"
                  /\ defers' = PushDefer(defers, "sshClient.Close")
                  /\ pc' = "Dial"
                  /\ UNCHANGED <<stderr, retval>>
             ELSE /\ stderr' = Append(stderr, "Failed while connecting to client")
                  /\ ReturnFromRun(1)
                  /\ UNCHANGED <<session, defers>>
    /\ UNCHANGED <<Package, files, given, clock, args, flags, initErr, directives, userConfig, rc, channel, wire,
                   resp, exitCode, stdout>>

\* Run, lines 116-122: the forwarded channel to the remote Unix socket
DialSocket ==
    /\ pc = "Dial"
    /\ \E ok \in BOOLEAN :
          /\ trace' = Append(trace, Event("openSocket", ok, <<>>, ""))
          /\ IF ok
             THEN /\ channel' = "open"
                  /\ defers' = PushDefer(defers, "conn.Close")
                  /\ pc' = "Write"
                  /\ UNCHANGED <<stderr, retval>>
             ELSE /\ stderr' = Append(stderr, "dial remote socket")
                  /\ ReturnFromRun(1)
                  /\ UNCHANGED <<channel, defers>>
    /\ UNCHANGED <<Package, files, given, clock, args, flags, initErr, directives, userConfig, rc, session, wire,
                   resp, exitCode, stdout>>

\* Run, lines 127-139: the request is written to the channel
WriteRequest ==
    /\ pc = "Write"
    /\ \E ok \in BOOLEAN :
          /\ trace' = Append(trace, Event("write", ok, <<>>, ""))
          /\ IF ok
             THEN /\ wire' = Append(wire, BuildRequest(rc.command))
                  /\ pc' = "Read"
                  /\ UNCHANGED <<stderr, retval>>
             ELSE /\ stderr' = Append(stderr, "Error with request")
                  /\ ReturnFromRun(1)
                  /\ UNCHANGED wire
    /\ UNCHANGED <<Package, files, given, clock, args, flags, initErr, directives, userConfig, rc, session, channel,
                   resp, defers, exitCode, stdout>>

\* Run, lines 142-148: the response header is read and parsed
ReadResponse ==
    /\ pc = "Read"
    /\ \/ /\ trace' = Append(trace, Event("readResponse", FALSE, <<>>, ""))
          /\ stderr' = Append(stderr, "Error with response")
          /\ ReturnFromRun(1)
          /\ UNCHANGED <<resp, defers>>
       \/ \E status \in Statuses :
             /\ trace' = Append(trace, Event("readResponse", TRUE, <<>>, ""))
             /\ resp' = [StatusCode |-> status, bodyClosed |-> FALSE]
             /\ defers' = PushDefer(defers, "resp.Body.Close")
             /\ pc' = "Body"
             /\ UNCHANGED <<stderr, retval>>
    /\ UNCHANGED <<Package, files, given, clock, args, flags, initErr, directives, userConfig, rc, session, channel,
                   wire, exitCode, stdout>>

\* a Run that reports a non-2xx status as an error and leaves its body unprinted
ReadBody_Non2xxIsAnError ==
    /\ pc = "Body"
    /\ \/ /\ trace' = Append(trace, Event("readBody", FALSE, <<>>, ""))
          /\ stdout' = Append(stdout, <<"Status:", resp.StatusCode>>)
          /\ stderr' = Append(stderr, "read body")
          /\ ReturnFromRun(1)
       \/ \E body \in Bodies :
             /\ trace' = Append(trace, Event("readBody", TRUE, <<>>, ""))
             /\ IF ExitCodeFor(resp.StatusCode) = 0
                THEN /\ stdout' = stdout \o <<<<"Status:", resp.StatusCode>>,
                                               <<"Body:", body>>>>
                     /\ UNCHANGED stderr
                ELSE /\ stdout' = Append(stdout, <<"Status:", resp.StatusCode>>)
                     /\ stderr' = Append(stderr, "bad status")
             /\ ReturnFromRun(ExitCodeFor(resp.StatusCode))
    /\ UNCHANGED <<Package, files, given, clock, args, flags, initErr, directives, userConfig, rc,
                   session, channel, wire, resp, defers, exitCode>>

\* a Run that takes the exit code from the status even when the body could not
\* be read
ReadBody_StatusDecidesAfterReadError ==
    /\ pc = "Body"
    /\ \/ /\ trace' = Append(trace, Event("readBody", FALSE, <<>>, ""))
          /\ stdout' = Append(stdout, <<"Status:", resp.StatusCode>>)
          /\ stderr' = Append(stderr, "read body")
          /\ ReturnFromRun(ExitCodeFor(resp.StatusCode))
       \/ \E body \in Bodies :
             /\ trace' = Append(trace, Event("readBody", TRUE, <<>>, ""))
             /\ stdout' = stdout \o <<<<"Status:", resp.StatusCode>>, <<"Body:", body>>>>
             /\ ReturnFromRun(ExitCodeFor(resp.StatusCode))
             /\ UNCHANGED stderr
    /\ UNCHANGED <<Package, files, given, clock, args, flags, initErr, directives, userConfig, rc,
                   session, channel, wire, resp, defers, exitCode>>

\* Run, lines 151-164: the status line is printed, the body read and printed,
\* and the exit code taken from the status
ReadBody ==
    /\ pc = "Body"
    /\ \/ /\ trace' = Append(trace, Event("readBody", FALSE, <<>>, ""))
          /\ stdout' = Append(stdout, <<"Status:", resp.StatusCode>>)
          /\ stderr' = Append(stderr, "read body")
          /\ ReturnFromRun(1)
       \/ \E body \in Bodies :
             /\ trace' = Append(trace, Event("readBody", TRUE, <<>>, ""))
             /\ stdout' = stdout \o <<<<"Status:", resp.StatusCode>>, <<"Body:", body>>>>
             /\ ReturnFromRun(ExitCodeFor(resp.StatusCode))
             /\ UNCHANGED stderr
    /\ UNCHANGED <<Package, files, given, clock, args, flags, initErr, directives, userConfig, rc, session, channel,
                   wire, resp, defers, exitCode>>

\* Run returning: the deferred call on top of the stack runs
RunDeferred ==
    /\ pc = "unwinding"
    /\ defers # <<>>
    /\ LET call == Head(defers) IN
       /\ defers' = Tail(defers)
       /\ CASE call = "resp.Body.Close" ->
                 /\ resp' = [resp EXCEPT !.bodyClosed = TRUE]
                 /\ UNCHANGED <<session, channel, trace>>
            [] call = "conn.Close" ->
                 /\ channel' = "closed"
                 /\ trace' = Append(trace, Event("closeChannel", TRUE, <<>>, session))
                 /\ UNCHANGED <<session, resp>>
            [] call = "sshClient.Close" ->
                 /\ session' = "closed"
                 /\ trace' = Append(trace, Event("closeSession", TRUE, <<>>, channel))
                 /\ UNCHANGED <<channel, resp>>
    /\ UNCHANGED <<Package, files, given, clock, args, pc, flags, initErr, directives, userConfig, rc, wire, retval,
                   exitCode, stdout, stderr>>

\* main, lines 16-17: Run has returned and its value is the exit code
Exit ==
    /\ pc = "unwinding"
    /\ defers = <<>>
    /\ exitCode' = retval
    /\ pc' = "exited"
    /\ UNCHANGED <<Package, files, given, clock, args, flags, initErr, directives, userConfig, rc, session, channel,
                   wire, resp, defers, retval, stdout, stderr, trace>>

----------------------------------------------------------------------------
(* The invocation *)

Init ==
    /\ args \in SeqsUpTo(ArgTokens, MaxArgs)
    /\ pc = "NewRemoteCLI"
    /\ flags = NoValue
    /\ initErr = ""
    /\ directives = NoValue
    /\ userConfig = NoValue
    /\ rc = NoValue
    /\ session = "none"
    /\ channel = "none"
    /\ wire = <<>>
    /\ resp = NoValue
    /\ defers = <<>>
    /\ retval = NoCode
    /\ exitCode = NoCode
    /\ stdout = <<>>
    /\ stderr = <<>>
    /\ trace = <<>>
    /\ registry = commands
    /\ heap = <<>>
    /\ returned = <<>>
    /\ files = NoFiles
    /\ given = NoValue
    /\ clock = 0

Next ==
    \/ ParseArgs
    \/ ResolveHost
    \/ BuildTransportConfig
    \/ InitFailed
    \/ Connect
    \/ DialSocket
    \/ WriteRequest
    \/ ReadResponse
    \/ ReadBody
    \/ RunDeferred
    \/ Exit

Spec == Init /\ [][Next]_vars

----------------------------------------------------------------------------
(* client.NewUserConfig on its own: one call, with the alias, the process  *)
(* environment and the state of ~/.ssh/config given from the start          *)

S_rel_key == <<"k">>
S_tilde_user_key == <<"~","k">>
S_tilde_dot_key == <<"~","/",".","/","k">>
S_tilde_up_key == <<"~","/",".",".","/","k">>

\* the aliases NewUserConfig is called with
Aliases == {S_w, S_other}

\* the IdentityFile values explored: none, under "~/", absolute, relative, "~"
\* without a slash, "~/" alone, and "~/" followed by a path that is not clean
IdentityFiles ==
    {<<>>, S_tilde_key, S_abs_key, S_rel_key, S_tilde_user_key, S_tilde_slash,
     S_tilde_dot_key, S_tilde_up_key}

\* the Host blocks explored
ResolverBlocks ==
    [pattern : {S_w, S_star, S_other},
     HostName : {<<>>, S_hostname},
     User : {<<>>, S_admin},
     IdentityFile : IdentityFiles,
     Port : {<<>>, S_22, S_notanumber}]

\* the states of ~/.ssh/config explored: missing, undecodable, a failing lookup
\* (inside a block that matches), no block, one block, or a "Host w" block
\* followed by a "Host *" block
ResolverConfigFiles ==
    {[exists |-> FALSE, decodes |-> FALSE, getErr |-> "", blocks |-> <<>>],
     [exists |-> TRUE, decodes |-> FALSE, getErr |-> "", blocks |-> <<>>]}
    \cup {[exists |-> TRUE, decodes |-> TRUE, getErr |-> k,
           blocks |-> <<EmptyStarBlock>>] :
             k \in {"HostName", "User", "IdentityFile", "Port"}}
    \cup {[exists |-> TRUE, decodes |-> TRUE, getErr |-> "", blocks |-> b] :
             b \in {<<>>} \cup {<<x>> : x \in ResolverBlocks}
                   \cup {<<x, y>> : x \in {h \in ResolverBlocks : h.pattern = S_w},
                                     y \in FallbackBlocks}}

InitResolve ==
    /\ given \in [host : Aliases, env : Envs, file : ResolverConfigFiles]
    /\ pc = "NewUserConfig"
    /\ args = <<>>
    /\ flags = NoValue
    /\ initErr = ""
    /\ directives = NoValue
    /\ userConfig = NoValue
    /\ rc = NoValue
    /\ session = "none"
    /\ channel = "none"
    /\ wire = <<>>
    /\ resp = NoValue
    /\ defers = <<>>
    /\ retval = NoCode
    /\ exitCode = NoCode
    /\ stdout = <<>>
    /\ stderr = <<>>
    /\ trace = <<>>
    /\ registry = commands
    /\ heap = <<>>
    /\ returned = <<>>
    /\ files = NoFiles
    /\ clock = 0

\* the call client.NewUserConfig(given.host), from its entry to its return
CallNewUserConfig ==
    /\ pc = "NewUserConfig"
    /\ given # NoValue
    /\ LET r == NewUserConfig(given.host, given.env, given.file) IN
       /\ trace' = Append(trace, Event("resolve", r.err = "", given.host, r.err))
       /\ initErr' = r.err
       /\ userConfig' = r.cfg
       /\ directives' = r.lookups
       /\ files' = ApplyFileOps(files, NewUserConfigFileOps(given.host, given.env,
                                                           given.file))
       /\ pc' = "returned"
    /\ UNCHANGED <<Package, given, clock, args, flags, rc, exitCode, stdout, stderr>>
    /\ UNCHANGED RunVars

NextResolve == CallNewUserConfig

SpecResolve == InitResolve /\ [][NextResolve]_vars

----------------------------------------------------------------------------
(* client.NewSSHClient on its own: ssh.Dial("tcp", addr, config) followed   *)
(* in time.  ssh.Dial is net.DialTimeout(network, addr, config.Timeout)     *)
(* and then the handshake of NewClientConn on the connection it got;        *)
(* ClientConfig.Timeout is "the maximum amount of time for the TCP          *)
(* connection to establish", and nothing sets a deadline on the connection. *)

\* the dial timeouts explored (0, which means no timeout at all, is left out)
DialTimeouts == 1..MaxTimeout

\* the addresses explored: a numeric port and one that does not resolve
ConnectAddrs ==
    {Addr([hostName |-> S_w, port |-> p]) : p \in {S_22, S_notanumber}}

InitConnect ==
    /\ rc \in [addr : ConnectAddrs,
                command : {commands[S_list_containers]},
                sshClientConfig : [User : {S_user},
                                   HostKeyCallback : {"InsecureIgnoreHostKey",
                                                      "knownhosts"},
                                   Timeout : DialTimeouts]]
    /\ pc = "Run"
    /\ clock = 0
    /\ given = NoValue
    /\ args = <<>>
    /\ flags = NoValue
    /\ initErr = ""
    /\ directives = NoValue
    /\ userConfig = NoValue
    /\ session = "none"
    /\ channel = "none"
    /\ wire = <<>>
    /\ resp = NoValue
    /\ defers = <<>>
    /\ retval = NoCode
    /\ exitCode = NoCode
    /\ stdout = <<>>
    /\ stderr = <<>>
    /\ trace = <<>>
    /\ registry = commands
    /\ heap = <<>>
    /\ returned = <<>>
    /\ files = NoFiles

ConnectFrame == <<Package, files, given, args, flags, initErr, directives, userConfig, rc, channel,
                  wire, resp, defers, retval, exitCode, stdout, stderr>>

\* ssh.Dial returns: its outcome is the outcome of connect
DialReturns(outcome) ==
    /\ trace' = Append(trace, Event("connect", outcome = "ok", rc.addr, outcome))
    /\ session' = (IF outcome = "ok" THEN "open" ELSE session)
    /\ pc' = (IF outcome = "ok" THEN "connected" ELSE "failed")

\* net.DialTimeout is entered: the address is resolved, and the timer of
\* config.Timeout runs from here
EnterDial ==
    /\ pc = "Run"
    /\ IF LookupPort(PortOfAddr(rc.addr))
       THEN /\ pc' = "tcpDial"
            /\ UNCHANGED <<session, trace>>
       ELSE DialReturns("dial failed")
    /\ UNCHANGED clock
    /\ UNCHANGED ConnectFrame

\* a second passes while ssh.Dial is blocked; net.DialTimeout does not stay
\* blocked past its deadline, the handshake has no deadline
Tick ==
    /\ pc \in {"tcpDial", "handshake"}
    /\ clock < MaxClock
    /\ pc = "tcpDial" => clock < rc.sshClientConfig.Timeout
    /\ clock' = clock + 1
    /\ UNCHANGED <<pc, session, trace>>
    /\ UNCHANGED ConnectFrame

\* net.DialTimeout returns: a connection, an error, or its deadline has passed
TcpDialEnds ==
    /\ pc = "tcpDial"
    /\ \/ /\ pc' = "handshake"
          /\ UNCHANGED <<session, trace>>
       \/ DialReturns("dial failed")
       \/ /\ clock = rc.sshClientConfig.Timeout
          /\ DialReturns("timeout")
    /\ UNCHANGED clock
    /\ UNCHANGED ConnectFrame

\* NewClientConn returns: the handshake is done, or it failed, or the host key
\* callback rejected the key
HandshakeEnds ==
    /\ pc = "handshake"
    /\ \E outcome \in ConnectOutcomes(rc.addr, rc.sshClientConfig)
                        \ {"dial failed", "timeout"} : DialReturns(outcome)
    /\ UNCHANGED clock
    /\ UNCHANGED ConnectFrame

NextConnect ==
    \/ EnterDial
    \/ Tick
    \/ TcpDialEnds
    \/ HandshakeEnds

SpecConnect == InitConnect /\ [][NextConnect]_vars

----------------------------------------------------------------------------
(* package commands on its own: a caller calls Commands and IsCommand and   *)
(* does what it likes with the map and the pointers it got back             *)

S_list_container == SubSeq(S_list_containers, 1, Len(S_list_containers) - 1)
S_List_containers == <<"L">> \o Tail(S_list_containers)
S_test == <<"t","e","s","t">>

\* the names IsCommand is called with: the registered one, the empty string, a
\* name that is not registered, and names one character away from the
\* registered one
LookupNames == {S_list_containers, <<>>, S_w, S_list_container, S_List_containers}

\* the Command a caller writes
TestCommand == [Path |-> "/test", Method |-> "POST"]

\* what a caller does to a map it holds: add an entry, overwrite one, delete one
MapWrites(m) ==
    {[k \in DOMAIN m \cup {S_test} |-> IF k = S_test THEN TestCommand ELSE m[k]],
     [k \in DOMAIN m |-> IF k = S_list_containers THEN TestCommand ELSE m[k]],
     [k \in DOMAIN m \ {S_list_containers} |-> m[k]]}

\* the object a reference points to
Deref(ref) == IF ref.space = "global" THEN registry ELSE heap[ref.at]

InitRegistry ==
    /\ registry = commands
    /\ heap = <<>>
    /\ returned = <<>>
    /\ pc = "caller"
    /\ files = NoFiles
    /\ given = NoValue
    /\ clock = 0
    /\ args = <<>>
    /\ flags = NoValue
    /\ initErr = ""
    /\ directives = NoValue
    /\ userConfig = NoValue
    /\ rc = NoValue
    /\ session = "none"
    /\ channel = "none"
    /\ wire = <<>>
    /\ resp = NoValue
    /\ defers = <<>>
    /\ retval = NoCode
    /\ exitCode = NoCode
    /\ stdout = <<>>
    /\ stderr = <<>>
    /\ trace = <<>>

RegistryFrame == <<files, given, clock, args, pc, flags, initErr, directives,
                   userConfig, rc, session, channel, wire, resp, defers, retval,
                   exitCode, stdout, stderr, trace>>

\* a call of Commands()
CallCommands ==
    /\ pc = "caller"
    /\ Len(returned) < MaxCalls
    /\ LET r == CommandsCall(heap) IN
       /\ heap' = r.heap
       /\ returned' = Append(returned, [fn |-> "Commands", arg |-> <<>>, ref |-> r.ref,
                                        val |-> registry])
    /\ UNCHANGED registry
    /\ UNCHANGED RegistryFrame

\* a call of IsCommand(cmd)
CallIsCommand ==
    /\ pc = "caller"
    /\ Len(returned) < MaxCalls
    /\ \E cmd \in LookupNames :
          LET r == IsCommandCall(heap, cmd) IN
          /\ heap' = r.heap
          /\ returned' = Append(returned, [fn |-> "IsCommand", arg |-> cmd,
                                           ref |-> r.ref, val |-> IsCommand(cmd)])
    /\ UNCHANGED registry
    /\ UNCHANGED RegistryFrame

\* the caller writes to a map that Commands returned
MutateReturnedMap ==
    /\ pc = "caller"
    /\ \E i \in DOMAIN returned :
          /\ returned[i].fn = "Commands"
          /\ \E m \in MapWrites(Deref(returned[i].ref)) :
                IF returned[i].ref.space = "global"
                THEN /\ registry' = m
                     /\ UNCHANGED heap
                ELSE /\ heap' = [heap EXCEPT ![returned[i].ref.at] = m]
                     /\ UNCHANGED registry
    /\ UNCHANGED returned
    /\ UNCHANGED RegistryFrame

\* the caller writes through a pointer that IsCommand returned
MutateReturnedCommand ==
    /\ pc = "caller"
    /\ \E i \in DOMAIN returned :
          /\ returned[i].fn = "IsCommand"
          /\ returned[i].ref.space = "heap"
          /\ heap' = [heap EXCEPT ![returned[i].ref.at] = TestCommand]
    /\ UNCHANGED <<registry, returned>>
    /\ UNCHANGED RegistryFrame

NextRegistry ==
    \/ CallCommands
    \/ CallIsCommand
    \/ MutateReturnedMap
    \/ MutateReturnedCommand

SpecRegistry == InitRegistry /\ [][NextRegistry]_vars

----------------------------------------------------------------------------
(* Properties *)

\* the positions of the calls to op in the trace
Calls(op) == {i \in DOMAIN trace : trace[i].op = op}

\* op was called and succeeded
Succeeded(op) == \E i \in Calls(op) : trace[i].ok

\* op was called and failed
Failed(op) == \E i \in Calls(op) : ~trace[i].ok

\* Run has returned to main
RunReturned == retval # NoCode /\ defers = <<>> /\ pc \in {"unwinding", "exited"}

\* the response's status is in [200, 300)
Is2xx(status) == 200 <= status /\ status < 300

\* the position of an operation in the pipeline
Rank(op) ==
    CASE op = "validateArgs" -> 0
      [] op = "resolve" -> 1
      [] op = "readKey" -> 2
      [] op = "parseKey" -> 3
      [] op = "knownHosts" -> 4
      [] op = "connect" -> 5
      [] op = "openSocket" -> 6
      [] op = "write" -> 7
      [] op = "readResponse" -> 8
      [] op = "readBody" -> 9
      [] op = "closeChannel" -> 10
      [] op = "closeSession" -> 11

\* C1, as stated: once Run has opened the secure session, on every exit path
\* (forwarded-socket open failure included) the forwarded channel and the secure
\* session have both been closed exactly once when Run returns.
C1_BothClosedOnEveryPath ==
    (RunReturned /\ Succeeded("connect")) =>
        /\ Cardinality(Calls("closeSession")) = 1
        /\ Cardinality(Calls("closeChannel")) = 1

\* C1, amended: once Run has opened the secure session, on every exit path the
\* session has been closed exactly once when Run returns, and the forwarded
\* channel has been closed exactly once if it was opened and not at all if
\* opening it failed; nothing is ever closed twice.
C1_ClosedExactlyOnce ==
    /\ Cardinality(Calls("closeSession")) <= 1
    /\ Cardinality(Calls("closeChannel")) <= 1
    /\ (RunReturned /\ Succeeded("connect")) =>
          /\ session = "closed"
          /\ Cardinality(Calls("closeSession")) = 1
          /\ Succeeded("openSocket") =>
                channel = "closed" /\ Cardinality(Calls("closeChannel")) = 1
          /\ ~Succeeded("openSocket") =>
                channel = "none" /\ Calls("closeChannel") = {}

\* Run returned after a body-read failure with the channel and the session closed
C1_Witness ==
    /\ RunReturned
    /\ Failed("readBody")
    /\ channel = "closed"
    /\ session = "closed"

\* C2: when both the forwarded channel and the secure session were opened, every
\* exit path of Run closes the channel first and the session after it, and the
\* session is never closed while the channel is still open.
C2_ReverseOrderOfAcquisition ==
    /\ session = "closed" => channel # "open"
    /\ \A i \in Calls("closeSession") :
          /\ trace[i].why # "open"
          /\ Succeeded("openSocket") => \E j \in Calls("closeChannel") : j < i
    /\ (RunReturned /\ Succeeded("connect") /\ Succeeded("openSocket")) =>
          channel = "closed" /\ session = "closed"

\* Run is returning: the channel is already closed and the session still open
C2_Witness ==
    /\ pc = "unwinding"
    /\ channel = "closed"
    /\ session = "open"
    /\ defers = <<"sshClient.Close">>

\* C3: for every status code s of a response that was fully received, the exit
\* code is 0 if 200 <= s < 300 and 1 otherwise.
C3_ExitCodeFromStatus ==
    Succeeded("readBody") =>
        /\ retval = (IF Is2xx(resp.StatusCode) THEN 0 ELSE 1)
        /\ pc = "exited" => exitCode = retval

\* a response with status 300 was read to its end and the process exited with 1
C3_Witness ==
    /\ pc = "exited"
    /\ Succeeded("readBody")
    /\ resp.StatusCode = 300
    /\ exitCode = 1

\* every stage of the invocation succeeded and the response's status is 2xx
AllStagesSucceeded ==
    /\ \A i \in DOMAIN trace : trace[i].ok
    /\ \A op \in {"validateArgs", "resolve", "readKey", "parseKey", "connect",
                  "openSocket", "write", "readResponse", "readBody"} : Succeeded(op)
    /\ Is2xx(resp.StatusCode)

\* C4: the process exit code is always 0 or 1; it is 0 only if argument
\* validation, host resolution, transport-config construction, connect,
\* forwarded-socket open, request write, response parse and body read all
\* succeeded and the status is 2xx, and 1 after a failure of any of these stages
\* or a non-2xx status.
C4_ExitCodeZeroOnlyOnFullSuccess ==
    /\ exitCode \in {NoCode, 0, 1}
    /\ pc = "exited" <=> exitCode # NoCode
    /\ pc = "exited" =>
          /\ exitCode = 0 => AllStagesSucceeded
          /\ ~AllStagesSucceeded => exitCode = 1

\* the process exited with 0 after printing the status line and the body
C4_Witness ==
    /\ pc = "exited"
    /\ exitCode = 0
    /\ Len(stdout) = 2
    /\ stderr = <<>>

\* the arguments parse and name a first positional command that is not registered
UnregisteredCommandGiven ==
    LET p == FlagParse(args, FlagDefaults) IN
    /\ p.err = ""
    /\ Len(p.rest) >= 1
    /\ Raw(p.rest[1]) # S_list_containers

\* no stage after argument validation has started
NothingDialed ==
    \A i \in DOMAIN trace : trace[i].op = "validateArgs"

\* C5, as stated: an invocation with a command name that is not in the registry
\* fails with the 'invalid command' error before any connection attempt.
C5_InvalidCommandError ==
    (UnregisteredCommandGiven /\ pc # "NewRemoteCLI") =>
        /\ initErr = "invalid command"
        /\ NothingDialed

\* C5, amended: an invocation with a command name that is not in the registry
\* fails with exit code 1 before any connection attempt (no TCP dial and no
\* forwarded-socket dial ever happens); the error is 'invalid command' when a
\* non-empty -host was given, and the '-host is required' error, which is checked
\* first, when it was not.
C5_UnregisteredCommandNeverDials ==
    (UnregisteredCommandGiven /\ pc # "NewRemoteCLI") =>
        /\ pc \in {"initFailed", "exited"}
        /\ NothingDialed
        /\ rc = NoValue
        /\ initErr = (IF FlagParse(args, FlagDefaults).host # <<>>
                      THEN "invalid command" ELSE "-host is required")
        /\ pc = "exited" => exitCode = 1

\* -host=w with the unregistered command w: exited with 'invalid command'
C5_Witness ==
    /\ pc = "exited"
    /\ args = <<FlagV("host", S_w), Word(S_w)>>
    /\ initErr = "invalid command"
    /\ exitCode = 1

\* C6: the stages run in the strict sequence Host Resolver, Authenticator, Tunnel
\* Establisher, API Invoker: a stage starts only after the previous one
\* succeeded, and after a failed stage no later stage is ever started (every call
\* is later in the pipeline than the call before it, and only the closing of what
\* was opened follows a failed call).
C6_StrictStageSequence ==
    /\ \A i \in 1..(Len(trace) - 1) :
          /\ Rank(trace[i].op) < Rank(trace[i + 1].op)
          /\ ~trace[i].ok => trace[i + 1].op \in {"closeChannel", "closeSession"}
    /\ Calls("resolve") # {} => Succeeded("validateArgs")
    /\ Calls("readKey") # {} => Succeeded("resolve")
    /\ Calls("connect") # {} =>
          /\ Succeeded("readKey") /\ Succeeded("parseKey")
          /\ ~Failed("knownHosts")
          /\ rc # NoValue
    /\ Calls("openSocket") # {} => Succeeded("connect")
    /\ Calls("write") # {} => Succeeded("openSocket")
    /\ Calls("readResponse") # {} => Succeeded("write")
    /\ Calls("readBody") # {} => Succeeded("readResponse")

\* all four stages have run: the request is written and the response awaited
C6_Witness ==
    /\ pc = "Read"
    /\ Succeeded("resolve")
    /\ Succeeded("parseKey")
    /\ Succeeded("openSocket")
    /\ Succeeded("write")

\* C7, as stated: resolving a host alias whose Port directive is non-numeric
\* yields an error and never a successful resolution.
C7_NonNumericPortRejected ==
    (directives # NoValue /\ directives.Port # <<>> /\ ~Atoi(directives.Port).ok)
        => userConfig = NoValue

\* C8, as stated: a non-numeric Port directive for the requested alias aborts the
\* invocation before any network I/O: no TCP dial is ever attempted with an
\* address built from that port.
C8_NoDialWithMalformedPort ==
    \A i \in Calls("connect") : Atoi(PortOfAddr(trace[i].arg)).ok

\* C9: if the identity file cannot be read, its content is not a parsable private
\* key, or (with host verification enabled) the known-hosts file cannot be
\* loaded, transport-config construction returns an error and no configuration,
\* and the invocation aborts before any dial.
C9_KeyOrKnownHostsFailureAborts ==
    (Failed("readKey") \/ Failed("parseKey") \/ Failed("knownHosts")) =>
        /\ rc = NoValue
        /\ initErr \in {"read identity file", "parse private key", "load known hosts"}
        /\ pc \in {"initFailed", "exited"}
        /\ Calls("connect") = {} /\ Calls("openSocket") = {}
        /\ session = "none" /\ channel = "none"
        /\ pc = "exited" => exitCode = 1

\* the known-hosts file could not be loaded and the process exited without a dial
C9_Witness ==
    /\ pc = "exited"
    /\ Failed("knownHosts")
    /\ exitCode = 1
    /\ Calls("connect") = {}

\* C10: nothing is retried: the connect, the forwarded-socket open, the request
\* write and the response read are each performed at most once in an invocation,
\* and a successful run has opened exactly one forwarded channel.
C10_SingleAttempt ==
    /\ \A op \in {"connect", "openSocket", "write", "readResponse", "readBody"} :
          Cardinality(Calls(op)) <= 1
    /\ Len(wire) <= 1
    /\ (pc = "exited" /\ exitCode = 0) =>
          /\ Cardinality({i \in Calls("openSocket") : trace[i].ok}) = 1
          /\ Len(wire) = 1

\* a connect failed and the process exited after that single attempt
C10_Witness ==
    /\ pc = "exited"
    /\ Failed("connect")
    /\ Cardinality(Calls("connect")) = 1
    /\ exitCode = 1

\* the calls to connect that ended with the remote host's key rejected
HostKeyRejections == {i \in Calls("connect") : trace[i].why = "host key mismatch"}

\* C11: with host verification enabled, if the remote host's presented key is
\* rejected, connect fails and the invocation aborts with exit code 1: no
\* forwarded channel is opened, no request is written, and the policy is never
\* downgraded to accepting the key (a key is only ever rejected under the
\* known-hosts policy, the policy of the invocation stays that one, and connect
\* is not tried again).
C11_HostKeyRejectionAborts ==
    HostKeyRejections # {} =>
        /\ \A i \in HostKeyRejections : ~trace[i].ok
        /\ rc.sshClientConfig.HostKeyCallback = "knownhosts"
        /\ ~FlagParse(args, FlagDefaults).insecure
        /\ Cardinality(Calls("connect")) = 1
        /\ Calls("openSocket") = {} /\ Calls("write") = {}
        /\ session = "none" /\ channel = "none" /\ wire = <<>>
        /\ pc \in {"unwinding", "exited"}
        /\ retval = 1
        /\ pc = "exited" => exitCode = 1

\* the host's key was rejected and the process exited with 1 and a diagnostic
C11_Witness ==
    /\ pc = "exited"
    /\ HostKeyRejections # {}
    /\ exitCode = 1
    /\ stderr = <<"Failed while connecting to client">>

\* os.Open of ~/.ssh/config failed in the resolver
ConfigUnopened == \E i \in Calls("resolve") : trace[i].why = "open config"

\* C16: when the host configuration file cannot be opened, resolution fails with
\* an error for every alias, and neither the Authenticator, the Tunnel
\* Establisher nor the API Invoker runs in that invocation.
C16_NoConfigFileAborts ==
    ConfigUnopened =>
        /\ \A i \in Calls("resolve") : ~trace[i].ok
        /\ initErr = "open config"
        /\ userConfig = NoValue /\ rc = NoValue
        /\ pc \in {"initFailed", "exited"}
        /\ \A op \in {"readKey", "parseKey", "knownHosts", "connect", "openSocket",
                       "write", "readResponse", "readBody"} : Calls(op) = {}
        /\ session = "none" /\ channel = "none" /\ wire = <<>>
        /\ pc = "exited" => exitCode = 1

\* ~/.ssh/config could not be opened and the process exited with 1 after the
\* argument check and the resolver alone
C16_Witness ==
    /\ pc = "exited"
    /\ ConfigUnopened
    /\ Len(trace) = 2
    /\ exitCode = 1
    /\ stderr = <<"failed to initialize CLI">>

\* the value of -no-host-validation after fs.Parse
InsecureFlag == FlagParse(args, FlagDefaults).insecure

\* the value of -timeout after fs.Parse, in seconds
TimeoutFlag == FlagParse(args, FlagDefaults).timeout

\* no argument is the flag with this name
FlagNotGiven(n) == \A i \in DOMAIN args : ~(args[i].kind = "flag" /\ args[i].name = n)

\* C17: the host-verification policy depends only on the caller's flag: when the
\* flag is true the policy accepts any host key and the known-hosts file is
\* never read (construction succeeds even if that file is missing or malformed);
\* when the flag is false, which is the CLI default, the policy is
\* verify-against-known-hosts and construction fails if the known-hosts file
\* cannot be loaded.
C17_PolicyFromFlagAlone ==
    /\ FlagNotGiven("no-host-validation") => ~InsecureFlag
    /\ rc # NoValue =>
          rc.sshClientConfig.HostKeyCallback =
              (IF InsecureFlag THEN "InsecureIgnoreHostKey" ELSE "knownhosts")
    /\ (Calls("readKey") # {} /\ InsecureFlag) =>
          /\ Calls("knownHosts") = {}
          /\ Succeeded("parseKey") => (rc # NoValue /\ initErr = "")
    /\ (Calls("readKey") # {} /\ ~InsecureFlag) =>
          /\ Succeeded("parseKey") => Calls("knownHosts") # {}
          /\ Failed("knownHosts") => (rc = NoValue /\ initErr = "load known hosts")
          /\ rc # NoValue => Succeeded("knownHosts")

\* -no-host-validation was given: the configuration is built with the policy
\* that accepts any key and the known-hosts file was left alone
C17_Witness ==
    /\ pc = "Run"
    /\ InsecureFlag
    /\ rc.sshClientConfig.HostKeyCallback = "InsecureIgnoreHostKey"
    /\ Succeeded("parseKey")
    /\ Calls("knownHosts") = {}

\* C18: the dial timeout of the constructed transport configuration equals the
\* caller-supplied value unchanged: the value of -timeout when the flag is given
\* (e.g. 60s), and 30s when it is not.
C18_TimeoutUnchanged ==
    rc # NoValue =>
        /\ rc.sshClientConfig.Timeout = TimeoutFlag
        /\ FlagNotGiven("timeout") => rc.sshClientConfig.Timeout = 30
        /\ (Len(args) >= 1 /\ args[1] = FlagV("timeout", S_60s)) =>
              rc.sshClientConfig.Timeout = 60

\* -timeout=60s -host=w list_containers: the configuration has a timeout of 60 s
C18_Witness ==
    /\ pc = "Run"
    /\ args = <<FlagV("timeout", S_60s), FlagV("host", S_w), Word(S_list_containers)>>
    /\ rc.sshClientConfig.Timeout = 60

\* C20, as stated: on success stdout receives the HTTP status line followed by
\* the response body, and on every failing invocation (every path that ends with
\* exit code 1, including a non-2xx HTTP outcome) a diagnostic message is
\* written to the error stream.
C20_BodyOnSuccessDiagnosticOnFailure ==
    pc = "exited" =>
        /\ exitCode = 0 =>
              /\ Len(stdout) = 2
              /\ stdout[1] = <<"Status:", resp.StatusCode>>
              /\ stdout[2][1] = "Body:"
        /\ exitCode = 1 => stderr # <<>>

\* C21: a non-2xx HTTP response is not treated as an error of the call: its
\* status line and its full body are rendered to the user exactly as for a 2xx
\* response (the same two lines on stdout, nothing on the error stream), all
\* resources are released, and only the exit code differs (1).
C21_Non2xxRenderedLike2xx ==
    (Succeeded("readBody") /\ RunReturned) =>
        /\ \E body \in Bodies :
              stdout = <<<<"Status:", resp.StatusCode>>, <<"Body:", body>>>>
        /\ stderr = <<>>
        /\ session = "closed" /\ channel = "closed" /\ resp.bodyClosed
        /\ retval = (IF Is2xx(resp.StatusCode) THEN 0 ELSE 1)
        /\ pc = "exited" => exitCode = retval

\* a 404 was printed with its body, everything was closed and the exit code is 1
C21_Witness ==
    /\ pc = "exited"
    /\ resp # NoValue
    /\ resp.StatusCode = 404
    /\ Len(stdout) = 2
    /\ stderr = <<>>
    /\ session = "closed" /\ channel = "closed"
    /\ exitCode = 1

\* C22: if reading the response body fails after the response header was parsed
\* successfully, the failure is reported on the error stream and the exit code
\* is 1 whatever the status code was, including 2xx.
C22_BodyReadFailureExitsOne ==
    Failed("readBody") =>
        /\ Succeeded("readResponse")
        /\ stderr = <<"read body">>
        /\ stdout = <<<<"Status:", resp.StatusCode>>>>
        /\ retval = 1
        /\ pc = "exited" => exitCode = 1

\* the body of a 200 response could not be read and the process exited with 1
C22_Witness ==
    /\ pc = "exited"
    /\ Failed("readBody")
    /\ resp.StatusCode = 200
    /\ exitCode = 1
    /\ stderr = <<"read body">>

\* NewRemoteCLI has returned to main
Constructed == pc \notin {"NewRemoteCLI", "NewUserConfig", "NewSSHClientConfig"}

\* the flag variables and the positional arguments after fs.Parse(args)
Parsed == FlagParse(args, FlagDefaults)

\* C25, as stated: NewRemoteCLI returns an error and no RemoteCLI when -host is
\* absent or empty (the error mentions 'host'), when no positional command is
\* given (the error mentions 'command'), or when a flag value cannot be parsed
\* (e.g. -timeout invalid); it returns a RemoteCLI only when the host is
\* non-empty, the command is registered, and resolution and transport-config
\* construction succeeded.
C25_ErrorNamesWhatIsMissing ==
    Constructed =>
        LET p == Parsed IN
        /\ FlagNotGiven("host") =>
              (rc = NoValue /\ MentionsHost(initErr))
        /\ (p.err = "" /\ p.rest = <<>>) =>
              (rc = NoValue /\ MentionsCommand(initErr))
        /\ p.err \in {"invalid value", "invalid boolean value"} =>
              (rc = NoValue /\ initErr = p.err)
        /\ rc # NoValue =>
              /\ p.host # <<>>
              /\ Raw(p.rest[1]) = S_list_containers
              /\ Succeeded("resolve")
              /\ Succeeded("parseKey")
              /\ ~Failed("readKey") /\ ~Failed("knownHosts")

\* C25, amended: NewRemoteCLI returns an error and no RemoteCLI when -host is
\* absent or empty, when no positional command is given, or when a flag value
\* cannot be parsed; the error is that of the first check that fails: the flag
\* package's error when parsing fails, otherwise an error that mentions
\* 'command' when no positional command is given, otherwise an error that
\* mentions 'host' when -host is absent or empty.  It returns a RemoteCLI only
\* when the host is non-empty, the command is registered, and resolution and
\* transport-config construction succeeded.
C25_FirstFailingCheckIsReported ==
    Constructed =>
        LET p == Parsed IN
        /\ (FlagNotGiven("host") \/ p.host = <<>>) =>
              (rc = NoValue /\ initErr # "")
        /\ p.err # "" =>
              (rc = NoValue /\ initErr = p.err /\ initErr \in ParseErrors)
        /\ (p.err = "" /\ p.rest = <<>>) =>
              (rc = NoValue /\ MentionsCommand(initErr) /\ ~MentionsHost(initErr))
        /\ (p.err = "" /\ p.rest # <<>> /\ p.host = <<>>) =>
              (rc = NoValue /\ MentionsHost(initErr))
        /\ rc # NoValue =>
              /\ initErr = ""
              /\ p.host # <<>>
              /\ Raw(p.rest[1]) = S_list_containers
              /\ Succeeded("resolve")
              /\ Succeeded("parseKey")
              /\ ~Failed("readKey") /\ ~Failed("knownHosts")

\* a command was given without -host and main was told that the host is
\* missing
C25_Witness ==
    /\ pc = "initFailed"
    /\ args = <<Word(S_list_containers)>>
    /\ initErr = "-host is required"
    /\ rc = NoValue

\* the events that the step appends to the trace
NewEvents == {i \in DOMAIN trace' : i > Len(trace)}

\* C26: for every resolved configuration, the address that is dialed is in
\* host:port form, built as the resolved hostName, a colon and the resolved
\* port, and NewRemoteCLI stores exactly that address (e.g.
\* test.example.com:22).
C26_AddressIsHostColonPort ==
    [][/\ (pc = "NewSSHClientConfig" /\ pc' = "Run") =>
             rc'.addr = userConfig.hostName \o <<":">> \o userConfig.port
       /\ \A i \in NewEvents :
             trace'[i].op = "connect" => trace'[i].arg = rc.addr
       /\ (rc # NoValue /\ rc' # NoValue) => rc'.addr = rc.addr]_vars

\* the alias w resolved to the host name w and the default port, and w:22 was
\* stored and dialed
C26_Witness ==
    /\ rc # NoValue
    /\ rc.addr = S_w \o <<":", "2", "2">>
    /\ \E i \in Calls("connect") : trace[i].arg = rc.addr
    /\ \E i \in Calls("resolve") : trace[i].ok /\ trace[i].arg = S_w

\* the request that list_containers stands for
ListContainersRequest ==
    [Method |-> "GET", Path |-> "/v3.0.0/containers/json", Host |-> "localhost",
     Body |-> ""]

\* C27: the request written to the forwarded channel is determined by the
\* command alone: its method and path are the command's method and path, its
\* Host header is the fixed placeholder "localhost", and it has no body,
\* whatever host alias, user or address was resolved.
C27_RequestFromCommandAlone ==
    /\ Len(wire) <= 1
    /\ \A i \in DOMAIN wire :
          /\ wire[i].Method = rc.command.Method
          /\ wire[i].Path = rc.command.Path
          /\ wire[i].Host = "localhost"
          /\ wire[i].Body = ""
          /\ Raw(Parsed.rest[1]) = S_list_containers
          /\ wire[i] = ListContainersRequest

\* the request went out after the alias w had resolved to another host name
C27_Witness ==
    /\ wire = <<ListContainersRequest>>
    /\ Parsed.host = S_w
    /\ rc.addr # S_w \o <<":", "2", "2">>
    /\ Succeeded("write")

\* the checks NewRemoteCLI makes
InitOps == {"validateArgs", "resolve", "readKey", "parseKey", "knownHosts"}

\* C28: NewRemoteCLI checks in a fixed order (flag parsing, presence of a
\* positional command, presence of -host, registry membership of the command,
\* configuration file, identity key, known-hosts) and reports only the first
\* check that fails: with neither -host nor a command the error is the
\* missing-command one, and with an unknown command and no configuration file
\* the error is 'invalid command' and the configuration file is never opened.
C28_FirstFailureInFixedOrder ==
    /\ \A i \in DOMAIN trace :
          (trace[i].op \in InitOps /\ i > 1) =>
              /\ trace[i - 1].ok
              /\ Rank(trace[i - 1].op) < Rank(trace[i].op)
    /\ Constructed =>
          LET p == Parsed IN
          /\ p.err # "" => initErr = p.err
          /\ (p.err = "" /\ p.rest = <<>>) =>
                initErr = "at least one command must be provided"
          /\ (p.err = "" /\ p.rest # <<>> /\ p.host = <<>>) =>
                initErr = "-host is required"
          /\ (/\ p.err = "" /\ p.rest # <<>> /\ p.host # <<>>
              /\ Raw(p.rest[1]) # S_list_containers) =>
                initErr = "invalid command"
          /\ Failed("validateArgs") =>
                /\ Calls("resolve") = {}
                /\ files = NoFiles
                /\ Len(trace) = 1
          /\ Failed("resolve") =>
                /\ \E i \in Calls("resolve") : initErr = trace[i].why
                /\ Calls("readKey") = {}
          /\ Failed("readKey") => initErr = "read identity file"
          /\ Failed("parseKey") => initErr = "parse private key"
          /\ Failed("knownHosts") => initErr = "load known hosts"
          /\ (\A i \in DOMAIN trace : trace[i].op \in InitOps => trace[i].ok) =>
                (initErr = "" /\ rc # NoValue)

\* -host was given with a command that is not registered: the error is
\* 'invalid command', and ~/.ssh/config, whether it exists or not, was not opened
C28_Witness ==
    /\ pc = "initFailed"
    /\ args = <<FlagV("host", S_w), Word(S_w)>>
    /\ initErr = "invalid command"
    /\ files.opens = 0
    /\ Calls("resolve") = {}

\* the arguments that are words
Words == {i \in DOMAIN args : args[i].kind = "word"}

\* the place of the first word among the arguments
FirstWord == CHOOSE i \in Words : \A j \in Words : i <= j

\* every argument before the first word is a flag that carries its own value
\* (-name=value, or the boolean flag), so that the first word is the first
\* positional argument
FlagsThenWord ==
    /\ Words # {}
    /\ \A j \in 1..(FirstWord - 1) :
          /\ args[j].kind = "flag"
          /\ args[j].hasValue \/ args[j].name = "no-host-validation"

\* the flags in front of the command are good ones, name a host, and the
\* command is list_containers
GoodUpToCommand ==
    /\ FlagsThenWord
    /\ args[FirstWord] = Word(S_list_containers)
    /\ \E j \in 1..(FirstWord - 1) : args[j] = FlagV("host", S_w)
    /\ \A j \in 1..(FirstWord - 1) : args[j] # FlagV("timeout", S_bad)

\* C29: only the first positional argument selects the command: any further
\* arguments after it (including flags such as -timeout or -no-host-validation
\* placed after the command name) are silently ignored, cause no error, and
\* change neither the request's method and path nor the timeout nor the
\* host-verification policy.
C29_ArgumentsAfterCommandIgnored ==
    /\ (Constructed /\ GoodUpToCommand) =>
          /\ trace[1] = Event("validateArgs", TRUE, <<>>, "")
          /\ initErr \notin ParseErrors
          /\ \A i \in DOMAIN stderr :
                stderr[i] \notin {"flag usage", "Failed to parse arguments",
                                  "flag defaults"}
    /\ (rc # NoValue /\ FlagsThenWord) =>
          /\ args[FirstWord] = Word(S_list_containers)
          /\ rc.command = [Path |-> "/v3.0.0/containers/json", Method |-> "GET"]
          /\ rc.sshClientConfig.Timeout =
                (IF \E j \in 1..(FirstWord - 1) : args[j] = FlagV("timeout", S_60s)
                 THEN 60 ELSE DefaultTimeout)
          /\ rc.sshClientConfig.HostKeyCallback =
                (IF \E j \in 1..(FirstWord - 1) : args[j] = Flag("no-host-validation")
                 THEN "InsecureIgnoreHostKey" ELSE "knownhosts")
          /\ \A i \in DOMAIN wire : wire[i] = ListContainersRequest

\* -timeout=60s came after the command name: the request went out, and the
\* transport configuration has the default timeout and the known-hosts policy
C29_Witness ==
    /\ args = <<FlagV("host", S_w), Word(S_list_containers), FlagV("timeout", S_60s)>>
    /\ wire = <<ListContainersRequest>>
    /\ rc.sshClientConfig.Timeout = DefaultTimeout
    /\ rc.sshClientConfig.HostKeyCallback = "knownhosts"
    /\ stderr = <<>>

----------------------------------------------------------------------------
(* Properties of client.NewSSHClient, over SpecConnect *)

\* ssh.Dial has been entered and has not returned
Connecting == pc \in {"tcpDial", "handshake"}

\* C19, as stated: connect is bounded by dialTimeout over the whole
\* TCP-dial-plus-handshake sequence: if that sequence has not completed when the
\* timeout expires, connect fails with a Timeout error instead of blocking
\* further (connect is never still in progress after dialTimeout seconds).
C19_ConnectBoundedByDialTimeout ==
    Connecting => clock <= rc.sshClientConfig.Timeout

----------------------------------------------------------------------------
(* Properties of client.NewUserConfig, over SpecResolve *)

\* NewUserConfig has returned a UserConfig and no error
Resolved == pc = "returned" /\ initErr = "" /\ userConfig # NoValue

\* the value of directive key under the alias: that of the first block of the
\* file, in file order, whose pattern matches the alias and which gives key
Under(key) ==
    LET blocks == given.file.blocks
        giving == {i \in DOMAIN blocks : /\ Matches(blocks[i].pattern, given.host)
                                         /\ blocks[i][key] # <<>>}
    IN  IF giving = {} THEN <<>>
        ELSE blocks[CHOOSE i \in giving : \A j \in giving : i <= j][key]

\* <home>/.ssh/id_ed25519, which is relative when HOME is empty
DefaultIdentityFile ==
    (IF given.env.HOME = <<>> THEN <<>> ELSE given.env.HOME \o <<"/">>)
        \o S_dot_ssh \o <<"/">> \o S_id_ed25519

\* C12, as stated: for every configuration and alias, each of HostName, User,
\* IdentityFile and Port is resolved independently of the others: when the
\* directive has a non-empty value under the alias the field equals that value,
\* otherwise the field gets its default (the alias itself, the current OS user,
\* <home>/.ssh/id_ed25519, 22); read with HOME and USER set.
C12_DirectiveValueOrDefault ==
    (Resolved /\ given.env.HOME # <<>> /\ given.env.USER # <<>>) =>
        /\ userConfig.hostName =
              (IF Under("HostName") # <<>> THEN Under("HostName") ELSE given.host)
        /\ userConfig.user =
              (IF Under("User") # <<>> THEN Under("User") ELSE given.env.USER)
        /\ userConfig.identityFile =
              (IF Under("IdentityFile") # <<>> THEN Under("IdentityFile")
               ELSE DefaultIdentityFile)
        /\ userConfig.port = (IF Under("Port") # <<>> THEN Under("Port") ELSE S_22)

\* C12, amended: each of the four fields is resolved from its own directive
\* alone: a non-empty value under the alias is the field's value, for
\* IdentityFile after a leading "~/" has been expanded against HOME, and an
\* absent or empty one gives the default (the alias itself, the value of USER,
\* .ssh/id_ed25519 under HOME, 22).
C12_DirectiveValueExpandedOrDefault ==
    Resolved =>
        /\ directives = [HostName |-> Under("HostName"), User |-> Under("User"),
                         IdentityFile |-> Under("IdentityFile"),
                         Port |-> Under("Port")]
        /\ userConfig.hostName =
              (IF Under("HostName") # <<>> THEN Under("HostName") ELSE given.host)
        /\ userConfig.user =
              (IF Under("User") # <<>> THEN Under("User") ELSE given.env.USER)
        /\ userConfig.identityFile =
              (IF Under("IdentityFile") = <<>> THEN DefaultIdentityFile
               ELSE IF HasPrefix(Under("IdentityFile"), S_tilde_slash)
               THEN PathJoin(<<given.env.HOME, SliceFrom(Under("IdentityFile"), 2)>>)
               ELSE Under("IdentityFile"))
        /\ userConfig.port = (IF Under("Port") # <<>> THEN Under("Port") ELSE S_22)

\* "Host w" gives a user and a key under "~/" and no port; a later "Host *" gives
\* another port: the user is taken, the key expanded, the port is the later one
C12_Witness ==
    /\ Resolved
    /\ given.host = S_w
    /\ Len(given.file.blocks) = 2
    /\ given.file.blocks[1].Port = <<>>
    /\ userConfig.user = S_admin
    /\ userConfig.hostName = S_w
    /\ userConfig.identityFile = S_home \o <<"/", "k">>
    /\ userConfig.port = S_notanumber

\* the file is there and parses
ConfigReadable == given.file.exists /\ given.file.decodes

\* the alias stands on no Host line of the file
AliasNotNamed ==
    \A i \in DOMAIN given.file.blocks : given.file.blocks[i].pattern # given.host

\* no Host pattern of the file matches the alias, by name or by wildcard
AliasUnmatched ==
    \A i \in DOMAIN given.file.blocks :
        given.file.blocks[i].pattern \notin {given.host, S_star}

\* hostName is the alias and the other three fields have their defaults
AllDefaults ==
    /\ userConfig.hostName = given.host
    /\ userConfig.user = given.env.USER
    /\ userConfig.port = S_22
    /\ userConfig.identityFile = DefaultIdentityFile

\* C13, as stated: resolving an alias that does not appear in an existing
\* configuration file (including a completely empty file) succeeds without error
\* and yields hostName equal to the alias with every other field at its default.
C13_AbsentAliasGetsDefaults ==
    (pc = "returned" /\ ConfigReadable /\ given.file.getErr = "" /\ AliasNotNamed)
        => (Resolved /\ AllDefaults)

\* C13, amended: resolving an alias that no Host pattern of an existing, parsable
\* configuration file matches, neither by name nor by a wildcard such as
\* "Host *" (an empty file included), succeeds without error and yields hostName
\* equal to the alias with every other field at its default.
C13_UnmatchedAliasGetsDefaults ==
    (pc = "returned" /\ ConfigReadable /\ AliasUnmatched)
        => (Resolved /\ AllDefaults)

\* the file has a single "Host o" block that gives every directive, and alias w
\* resolved to the defaults
C13_Witness ==
    /\ Resolved
    /\ given.host = S_w
    /\ given.env = [HOME |-> S_home, USER |-> S_user]
    /\ Len(given.file.blocks) = 1
    /\ given.file.blocks[1] =
          [pattern |-> S_other, HostName |-> S_hostname, User |-> S_admin,
           IdentityFile |-> S_abs_key, Port |-> S_notanumber]
    /\ userConfig.hostName = S_w
    /\ userConfig.user = S_user
    /\ userConfig.port = S_22
    /\ userConfig.identityFile = S_home \o <<"/">> \o S_dot_ssh \o <<"/">> \o S_id_ed25519

\* C14, as stated: after every successful resolution, hostName, port, user and
\* identityFilePath are all non-empty, whatever the configuration content and the
\* process environment (HOME, USER) are.
C14_AllFieldsPopulated ==
    Resolved =>
        /\ userConfig.hostName # <<>>
        /\ userConfig.port # <<>>
        /\ userConfig.user # <<>>
        /\ userConfig.identityFile # <<>>

\* X is a path that filepath.Clean leaves as it is and that stays below the
\* directory it is joined to: not empty, not rooted, no empty, "." or ".."
\* component
IsCleanRelative(X) ==
    /\ X # <<>>
    /\ \A i \in DOMAIN SplitSlash(X) :
          SplitSlash(X)[i] \notin {<<>>, <<".">>, <<".", ".">>}

\* what filepath.Join(home, X) is for the explored values of ~/X
JoinedWithHome(home, v) ==
    CASE v = S_tilde_key -> IF home = <<>> THEN <<"k">> ELSE home \o <<"/", "k">>
      [] v = S_tilde_slash -> home
      [] v = S_tilde_dot_key -> IF home = <<>> THEN <<"k">> ELSE home \o <<"/", "k">>
      [] v = S_tilde_up_key -> IF home = <<>> THEN <<".", ".", "/", "k">> ELSE <<"/", "k">>

\* C15, as stated: an IdentityFile value of the form ~/X resolves to exactly
\* <home>/X for every X, and every IdentityFile value that does not start with
\* ~/ is used verbatim (read with a home directory that is set and an X that is
\* not empty).
C15_TildeIsHomeExactly ==
    Resolved =>
        LET v == Under("IdentityFile") IN
        /\ (HasPrefix(v, S_tilde_slash) /\ v # S_tilde_slash /\ given.env.HOME # <<>>) =>
              userConfig.identityFile = given.env.HOME \o <<"/">> \o SliceFrom(v, 2)
        /\ (v # <<>> /\ ~HasPrefix(v, S_tilde_slash)) => userConfig.identityFile = v

\* C15, amended: an IdentityFile value of the form ~/X resolves to
\* filepath.Join(home, X), the path <home>/X in its cleaned form, which is
\* exactly <home>/X whenever HOME is not empty and X is a clean relative path
\* (not empty, with no empty, "." or ".." component); every non-empty
\* IdentityFile value that does not start with ~/ is used verbatim.
C15_TildeIsHomeJoined ==
    Resolved =>
        LET v == Under("IdentityFile") IN
        /\ HasPrefix(v, S_tilde_slash) =>
              /\ userConfig.identityFile = JoinedWithHome(given.env.HOME, v)
              /\ (given.env.HOME # <<>> /\ IsCleanRelative(SliceFrom(v, 2))) =>
                    userConfig.identityFile =
                        given.env.HOME \o <<"/">> \o SliceFrom(v, 2)
        /\ (v # <<>> /\ ~HasPrefix(v, S_tilde_slash)) => userConfig.identityFile = v

\* "IdentityFile ~/../k" with HOME=/r resolved to /k
C15_Witness ==
    /\ Resolved
    /\ given.env.HOME = S_home
    /\ Under("IdentityFile") = S_tilde_up_key
    /\ userConfig.identityFile = S_abs_key

\* C30: host resolution opens the configuration file at most once per call and
\* closes the handle it opened on every return path (success, decode error,
\* lookup error), so no file handle stays open after resolution returns.
C30_ConfigFileClosedOnReturn ==
    pc = "returned" =>
        /\ files.opens <= 1
        /\ files.open = 0
        /\ initErr \in {"", "decode config", "lookup failed"} => files.opens = 1
        /\ initErr = "open config" <=> ~given.file.exists

\* the file was opened and could not be decoded, and resolution returned with
\* the handle closed
C30_Witness ==
    /\ pc = "returned"
    /\ initErr = "decode config"
    /\ files = [opens |-> 1, open |-> 0]

----------------------------------------------------------------------------
(* Properties of package commands, over SpecRegistry *)

\* the entry of list_containers as the source writes it
ListContainers == [Path |-> "/v3.0.0/containers/json", Method |-> "GET"]

\* the calls of fn so far
CallsOf(fn) == {i \in DOMAIN returned : returned[i].fn = fn}

\* C23: registry lookup is by exact name: IsCommand returns the {method, path}
\* pair for a registered name ("list_containers" gives GET
\* /v3.0.0/containers/json) and returns nil for every other string, including
\* the empty string.
C23_LookupByExactName ==
    \A i \in CallsOf("IsCommand") :
        IF returned[i].arg = S_list_containers
        THEN /\ returned[i].ref.space = "heap"
             /\ returned[i].val = ListContainers
        ELSE /\ returned[i].ref = NilRef
             /\ returned[i].val = NoValue

\* IsCommand gave the entry for "list_containers" and nil for "" and for
\* "list_container"
C23_Witness ==
    /\ Len(returned) = 3
    /\ returned[1].arg = S_list_containers /\ returned[1].val = ListContainers
    /\ returned[2].fn = "IsCommand" /\ returned[2].arg = <<>>
    /\ returned[2].ref = NilRef
    /\ returned[3].fn = "IsCommand" /\ returned[3].arg = S_list_container
    /\ returned[3].ref = NilRef

\* C24: the command registry is unchanged by anything a caller does with
\* returned values: after any sequence of Commands() and IsCommand() calls and
\* any mutation of the returned map or of the returned Command pointers, later
\* Commands() and IsCommand() calls return the original entries, and two
\* IsCommand calls never return the same pointer.
C24_RegistryUnchangedByCallers ==
    /\ DOMAIN registry = {S_list_containers}
    /\ registry[S_list_containers] = ListContainers
    /\ \A i \in CallsOf("Commands") :
          /\ DOMAIN returned[i].val = {S_list_containers}
          /\ returned[i].val[S_list_containers] = ListContainers
          /\ returned[i].ref.space = "heap"
    /\ \A i \in CallsOf("IsCommand") :
          returned[i].arg = S_list_containers => returned[i].val = ListContainers
    /\ \A i, j \in DOMAIN returned :
          (i # j /\ returned[i].ref # NilRef) => returned[i].ref # returned[j].ref

\* the caller emptied the map it got and overwrote the Command it was pointed
\* to, and a later IsCommand still returned the original entry at a new address
C24_Witness ==
    /\ Len(returned) = 3
    /\ returned[1].fn = "Commands" /\ DOMAIN heap[1] = {}
    /\ returned[2].fn = "IsCommand" /\ returned[2].ref = HeapRef(2)
    /\ heap[2] = TestCommand
    /\ returned[3].fn = "IsCommand" /\ returned[3].ref = HeapRef(3)
    /\ returned[3].val = ListContainers

====
